---- MODULE Spec2Model ----
(***************************************************************************)
(* Model of amdgpu-fan: the control curve (control.rs), the Pwm conversion *)
(* and the hwmon device operations (amdgpu.rs) and run / control_loop      *)
(* (main.rs, from the Manual-mode write on line 44 to the return).         *)
(*                                                                         *)
(* f64 values are modelled as extended rationals: NaN, +/-infinity or an   *)
(* exact fraction n/d in lowest terms.  Rounding of f64 arithmetic is not  *)
(* modelled; NaN and infinity propagate as in IEEE 754.                    *)
(***************************************************************************)
EXTENDS Integers, Sequences, FiniteSets, TLC

(***************************************************************************)
(* Bounds of the model.                                                    *)
(***************************************************************************)
\* largest number of breakpoints of a curve
MaxPoints == 2
\* largest number of loop iterations that are started
MaxIter == 2
\* largest number of entries of the card's hwmon directory
MaxEntries == 2
\* largest number of characters of a hwmon file whose contents are enumerated
MaxFileLen == 3

None == <<>>

Some(v) == <<v>>

(***************************************************************************)
(* f64 arithmetic.                                                         *)
(***************************************************************************)
NaN == [k |-> "nan", n |-> 0, d |-> 1]

Inf(s) == [k |-> "inf", n |-> s, d |-> 1]

Abs(i) == IF i < 0 THEN -i ELSE i

Sign(i) == IF i < 0 THEN -1 ELSE 1

RECURSIVE Gcd(_, _)
Gcd(a, b) == IF b = 0 THEN a ELSE Gcd(b, a % b)

\* the fraction n/d (d # 0) in lowest terms with a positive denominator
Fin(n, d) ==
    LET g == Gcd(Abs(n), Abs(d))
    IN  [k |-> "fin", n |-> (Sign(d) * n) \div g, d |-> Abs(d) \div g]

Int2F(i) == Fin(i, 1)

is_nan(a) == a.k = "nan"

is_finite(a) == a.k = "fin"

FNeg(a) == IF a.k = "nan" THEN NaN ELSE [a EXCEPT !.n = -a.n]

FAdd(a, b) ==
    IF is_nan(a) \/ is_nan(b) THEN NaN
    ELSE IF a.k = "inf" /\ b.k = "inf" THEN (IF a.n = b.n THEN a ELSE NaN)
    ELSE IF a.k = "inf" THEN a
    ELSE IF b.k = "inf" THEN b
    ELSE Fin(a.n * b.d + b.n * a.d, a.d * b.d)

FSub(a, b) == FAdd(a, FNeg(b))

FMul(a, b) ==
    IF is_nan(a) \/ is_nan(b) THEN NaN
    ELSE IF a.k = "inf" \/ b.k = "inf"
         THEN (IF a.n = 0 \/ b.n = 0 THEN NaN ELSE Inf(Sign(a.n) * Sign(b.n)))
    ELSE Fin(a.n * b.n, a.d * b.d)

FDiv(a, b) ==
    IF is_nan(a) \/ is_nan(b) THEN NaN
    ELSE IF a.k = "inf" THEN (IF b.k = "inf" THEN NaN ELSE Inf(Sign(a.n) * Sign(b.n)))
    ELSE IF b.k = "inf" THEN Int2F(0)
    ELSE IF b.n = 0 THEN (IF a.n = 0 THEN NaN ELSE Inf(Sign(a.n)))
    ELSE Fin(a.n * b.d, a.d * b.n)

\* a < b for two values that are not NaN
FLess(a, b) ==
    IF a.k = "inf" THEN a.n < 0 /\ ~(b.k = "inf" /\ b.n < 0)
    ELSE IF b.k = "inf" THEN b.n > 0
    ELSE a.n * b.d < b.n * a.d

\* f64::partial_cmp: no ordering when either side is NaN
partial_cmp(a, b) ==
    IF is_nan(a) \/ is_nan(b) THEN "None"
    ELSE IF FLess(a, b) THEN "Less"
    ELSE IF FLess(b, a) THEN "Greater"
    ELSE "Equal"

\* f64::min and f64::max: when one argument is NaN the other is returned
f64_min(a, b) ==
    IF is_nan(a) THEN b ELSE IF is_nan(b) THEN a ELSE IF FLess(b, a) THEN b ELSE a

f64_max(a, b) ==
    IF is_nan(a) THEN b ELSE IF is_nan(b) THEN a ELSE IF FLess(a, b) THEN b ELSE a

\* f64::floor of a finite value, as an integer
f64_floor(a) == a.n \div a.d

I32Max == 2147483647

I32Min == -I32Max - 1

\* `as i32` on an integral f64: saturating
as_i32(i) == IF i < I32Min THEN I32Min ELSE IF i > I32Max THEN I32Max ELSE i

(***************************************************************************)
(* control.rs: the control curve.  A curve is a sequence of breakpoints    *)
(* <<x, y>>; Rust indices are 0-based, so data_points[i] is dp[i + 1].     *)
(***************************************************************************)
\* slice::binary_search_by with the comparator of control.rs:18.  The search
\* halves [base, base + size) and compares the probe's x with the input; a
\* probe whose x is NaN makes the comparator's expect() panic.
RECURSIVE Search(_, _, _, _)
Search(dp, input, base, size) ==
    IF size > 1
    THEN LET half == size \div 2
             mid  == base + half
             cmp  == partial_cmp(dp[mid + 1][1], input)
         IN  IF cmp = "None" THEN [tag |-> "Panic", pos |-> mid]
             ELSE Search(dp, input, IF cmp = "Greater" THEN base ELSE mid, size - half)
    ELSE LET cmp == partial_cmp(dp[base + 1][1], input)
         IN  IF cmp = "None" THEN [tag |-> "Panic", pos |-> base]
             ELSE IF cmp = "Equal" THEN [tag |-> "Ok", pos |-> base]
             ELSE [tag |-> "Err", pos |-> base + (IF cmp = "Less" THEN 1 ELSE 0)]

binary_search_by(dp, input) ==
    IF Len(dp) = 0 THEN [tag |-> "Err", pos |-> 0] ELSE Search(dp, input, 0, Len(dp))

\* the interpolation of control.rs:30-34
Interpolate(dp, high_index, input) ==
    LET low_index == high_index - 1
        low_x  == dp[low_index + 1][1]
        low_y  == dp[low_index + 1][2]
        high_x == dp[high_index + 1][1]
        high_y == dp[high_index + 1][2]
    IN  FAdd(low_y, FDiv(FMul(FSub(high_y, low_y), FSub(input, low_x)), FSub(high_x, low_x)))

\* the bounds check of data_points[i]
InBounds(dp, i) == i >= 0 /\ i < Len(dp)

\* ControlCurve::control without the branch for an input above the highest
\* value
control_no_upper_branch(dp, input) ==
    IF Len(dp) = 0 THEN [panic |-> FALSE, v |-> NaN]
    ELSE LET r == binary_search_by(dp, input)
             high_index == r.pos
         IN  IF r.tag = "Panic" THEN [panic |-> TRUE, v |-> NaN]
             ELSE IF high_index = 0
                  THEN IF InBounds(dp, high_index)
                       THEN [panic |-> FALSE, v |-> dp[high_index + 1][2]]
                       ELSE [panic |-> TRUE, v |-> NaN]
             ELSE IF ~(high_index > 0 /\ high_index < Len(dp))
                  THEN [panic |-> TRUE, v |-> NaN]
             ELSE IF InBounds(dp, high_index - 1) /\ InBounds(dp, high_index)
                  THEN [panic |-> FALSE, v |-> Interpolate(dp, high_index, input)]
                  ELSE [panic |-> TRUE, v |-> NaN]

\* ControlCurve::control: [panic |-> TRUE] when the comparator's expect, the
\* assert of line 28 or the bounds check of an index panics, otherwise the
\* returned f64 in v
control(dp, input) ==
    IF Len(dp) = 0 THEN [panic |-> FALSE, v |-> NaN]
    ELSE LET r == binary_search_by(dp, input)
             high_index == r.pos
         IN  IF r.tag = "Panic" THEN [panic |-> TRUE, v |-> NaN]
             ELSE IF high_index = 0
                  THEN IF InBounds(dp, high_index)
                       THEN [panic |-> FALSE, v |-> dp[high_index + 1][2]]
                       ELSE [panic |-> TRUE, v |-> NaN]
             ELSE IF high_index = Len(dp)
                  THEN IF InBounds(dp, high_index - 1)
                       THEN [panic |-> FALSE, v |-> dp[high_index][2]]
                       ELSE [panic |-> TRUE, v |-> NaN]
             ELSE IF ~(high_index > 0 /\ high_index < Len(dp))
                  THEN [panic |-> TRUE, v |-> NaN]
             ELSE IF InBounds(dp, high_index - 1) /\ InBounds(dp, high_index)
                  THEN [panic |-> FALSE, v |-> Interpolate(dp, high_index, input)]
                  ELSE [panic |-> TRUE, v |-> NaN]

(***************************************************************************)
(* amdgpu.rs: Temperature, Pwm and the errors.                             *)
(***************************************************************************)
\* Temperature::as_celcius: thousandths of a degree to degrees
as_celcius(raw) == FDiv(Int2F(raw), Int2F(1000))

IoError(op) == [kind |-> "Io", op |-> op]

InvalidFanSpeed(min, max, percentage) ==
    [kind |-> "InvalidFanSpeed", min |-> min, max |-> max, percentage |-> percentage]

\* Pwm::from_percentage without the clamp of the percentage
from_percentage_noclamp(min, max, percentage) ==
    LET pwm_float == FAdd(Int2F(min), FMul(FSub(Int2F(max), Int2F(min)), percentage))
    IN  IF is_finite(pwm_float)
        THEN [ok |-> TRUE, pwm |-> as_i32(f64_floor(pwm_float))]
        ELSE [ok |-> FALSE, err |-> InvalidFanSpeed(min, max, percentage)]

\* Pwm::from_percentage rounding up instead of down
from_percentage_ceil(min, max, percentage) ==
    LET actual_percentage == f64_max(f64_min(percentage, Int2F(1)), Int2F(0))
        pwm_float == FAdd(Int2F(min), FMul(FSub(Int2F(max), Int2F(min)), actual_percentage))
    IN  IF is_finite(pwm_float)
        THEN [ok |-> TRUE, pwm |-> as_i32(-f64_floor(FNeg(pwm_float)))]
        ELSE [ok |-> FALSE, err |-> InvalidFanSpeed(min, max, percentage)]

\* Pwm::from_percentage
from_percentage(min, max, percentage) ==
    LET actual_percentage == f64_max(f64_min(percentage, Int2F(1)), Int2F(0))
        pwm_float == FAdd(Int2F(min), FMul(FSub(Int2F(max), Int2F(min)), actual_percentage))
    IN  IF is_finite(pwm_float)
        THEN [ok |-> TRUE, pwm |-> as_i32(f64_floor(pwm_float))]
        ELSE [ok |-> FALSE, err |-> InvalidFanSpeed(min, max, percentage)]

(***************************************************************************)
(* amdgpu.rs: the hwmon files.  A file is missing or has a content, a      *)
(* sequence of characters; BadByte stands for a byte that is no UTF-8.      *)
(***************************************************************************)
BadByte == "0xFF"

Missing == [exists |-> FALSE, bytes |-> <<>>]

File(bytes) == [exists |-> TRUE, bytes |-> bytes]

Digits == <<"0", "1", "2", "3", "4", "5", "6", "7", "8", "9">>

IsDigit(c) == \E i \in 1..10 : Digits[i] = c

DigitVal(c) == (CHOOSE i \in 1..10 : Digits[i] = c) - 1

\* position of the first "\n" of b at or after i; 0 when there is none
RECURSIVE NewlineAt(_, _)
NewlineAt(b, i) ==
    IF i > Len(b) THEN 0 ELSE IF b[i] = "\n" THEN i ELSE NewlineAt(b, i + 1)

\* BufRead::lines().next(): None at end of file, otherwise the bytes up to
\* the first "\n" without it and without a "\r" before it; an Io error
\* (InvalidData) when these bytes are no UTF-8
lines_next(b) ==
    IF Len(b) = 0 THEN [ok |-> TRUE, line |-> None]
    ELSE LET nl   == NewlineAt(b, 1)
             raw  == IF nl = 0 THEN b ELSE SubSeq(b, 1, nl - 1)
             line == IF nl > 0 /\ Len(raw) > 0 /\ raw[Len(raw)] = "\r"
                     THEN SubSeq(raw, 1, Len(raw) - 1)
                     ELSE raw
         IN  IF \E i \in 1..Len(raw) : raw[i] = BadByte
             THEN [ok |-> FALSE, line |-> None]
             ELSE [ok |-> TRUE, line |-> Some(line)]

\* the digit loop of i32::from_str: checked_mul(10), then checked_add of the
\* digit for a positive and checked_sub for a negative number
RECURSIVE ParseDigits(_, _, _, _)
ParseDigits(s, i, acc, neg) ==
    IF i > Len(s) THEN [ok |-> TRUE, v |-> acc]
    ELSE IF ~IsDigit(s[i]) THEN [ok |-> FALSE, v |-> 0]
    ELSE LET d == DigitVal(s[i])
         IN  IF neg
             THEN IF acc < -(I32Max \div 10) \/ acc * 10 < I32Min + d
                  THEN [ok |-> FALSE, v |-> 0]
                  ELSE ParseDigits(s, i + 1, acc * 10 - d, neg)
             ELSE IF acc > I32Max \div 10 \/ acc * 10 > I32Max - d
                  THEN [ok |-> FALSE, v |-> 0]
                  ELSE ParseDigits(s, i + 1, acc * 10 + d, neg)

\* str::parse::<i32>: an optional sign and at least one digit, in range
parse_i32(s) ==
    IF Len(s) = 0 THEN [ok |-> FALSE, v |-> 0]
    ELSE IF s[1] \in {"+", "-"}
         THEN IF Len(s) = 1 THEN [ok |-> FALSE, v |-> 0]
              ELSE ParseDigits(s, 2, 0, s[1] = "-")
    ELSE ParseDigits(s, 1, 0, FALSE)

\* the decimal digits of -v for v <= 0, most significant first
RECURSIVE NegDigits(_)
NegDigits(v) ==
    IF v = 0 THEN <<>>
    ELSE LET d == (10 - (v % 10)) % 10
         IN  Append(NegDigits((v + d) \div 10), Digits[d + 1])

\* Display for i32, as used by format!("{}", ..)
fmt_i32(v) ==
    IF v = 0 THEN <<"0">>
    ELSE IF v < 0 THEN <<"-">> \o NegDigits(v)
    ELSE NegDigits(-v)

\* GpuError::Parse(path, contents)
ParseError(path, contents) ==
    [kind |-> "Parse", path |-> path, contents |-> contents]

\* Hwmon::read_value that answers 0 for a line that does not parse
read_value_default(path, file) ==
    IF ~file.exists THEN [ok |-> FALSE, err |-> IoError(path)]
    ELSE LET contents == lines_next(file.bytes)
         IN  IF ~contents.ok THEN [ok |-> FALSE, err |-> IoError(path)]
             ELSE IF contents.line = None
                  THEN [ok |-> FALSE, err |-> ParseError(path, None)]
             ELSE LET parsed == parse_i32(contents.line[1])
                  IN  IF parsed.ok THEN [ok |-> TRUE, v |-> parsed.v]
                      ELSE [ok |-> TRUE, v |-> 0]

\* Hwmon::read_value::<_, i32>: open, first line, parse
read_value(path, file) ==
    IF ~file.exists THEN [ok |-> FALSE, err |-> IoError(path)]
    ELSE LET contents == lines_next(file.bytes)
         IN  IF ~contents.ok THEN [ok |-> FALSE, err |-> IoError(path)]
             ELSE IF contents.line = None
                  THEN [ok |-> FALSE, err |-> ParseError(path, None)]
             ELSE LET parsed == parse_i32(contents.line[1])
                  IN  IF parsed.ok THEN [ok |-> TRUE, v |-> parsed.v]
                      ELSE [ok |-> FALSE, err |-> ParseError(path, contents.line)]

\* Hwmon::new that falls back to 255 when pwm1_max cannot be read
Hwmon_new_default_max(min_file, max_file) ==
    LET pwm_min_raw == read_value("pwm1_min", min_file)
    IN  IF ~pwm_min_raw.ok THEN pwm_min_raw
        ELSE LET pwm_max_raw == read_value("pwm1_max", max_file)
             IN  [ok |-> TRUE, pwm_min |-> pwm_min_raw.v,
                  pwm_max |-> IF pwm_max_raw.ok THEN pwm_max_raw.v ELSE 255]

\* Hwmon::new: pwm1_min is read first, pwm1_max only when that succeeded
Hwmon_new(min_file, max_file) ==
    LET pwm_min_raw == read_value("pwm1_min", min_file)
    IN  IF ~pwm_min_raw.ok THEN pwm_min_raw
        ELSE LET pwm_max_raw == read_value("pwm1_max", max_file)
             IN  IF ~pwm_max_raw.ok THEN pwm_max_raw
                 ELSE [ok |-> TRUE, pwm_min |-> pwm_min_raw.v, pwm_max |-> pwm_max_raw.v]

\* Hwmon::get_temperature: the raw value of temp1_input
get_temperature(temp_file) == read_value("temp1_input", temp_file)

\* Hwmon::set_pwm without the sign of a negative value
set_pwm_unsigned(value) ==
    File((IF value < 0 THEN NegDigits(value) ELSE fmt_i32(value)) \o <<"\n">>)

\* Hwmon::set_pwm: what fs::write leaves in the pwm1 file
set_pwm(value) == File(fmt_i32(value) \o <<"\n">>)

(***************************************************************************)
(* The inputs of a run: the candidate configuration files, the entries of  *)
(* the card's hwmon directory and the contents of the temperature file.    *)
(***************************************************************************)
XVals == {Int2F(1), Int2F(2), NaN}

YVals == {Int2F(-1), Int2F(0), Int2F(1), Int2F(2)}

SeqsUpTo(S, n) == UNION {[1..k -> S] : k \in 0..n}

\* main.rs:28-31: the paths load_config tries, in this order
ConfigPaths == <<"amdgpu-fan.toml", "/etc/amdgpu-fan.toml">>

\* what read_to_string and toml::from_str can make of one candidate: no
\* such file, another Io error, text that is no Config, or a Config
ConfigFiles ==
    {[kind |-> "NotFound"], [kind |-> "IoError"], [kind |-> "BadToml"]}
        \cup {[kind |-> "Toml", temperatures |-> t, fan_speeds |-> f] :
                 t \in SeqsUpTo(XVals, MaxPoints), f \in SeqsUpTo(YVals, MaxPoints)}

\* <<pwm1_min, pwm1_max>> of the hwmon directories that can be opened
PwmBounds == {<<0, 255>>, <<-3, 0>>, <<5, 5>>, <<255, 0>>}

\* the pwm1_min and pwm1_max files of a hwmon directory
HwmonDirs ==
    {[min |-> File(fmt_i32(b[1]) \o <<"\n">>), max |-> File(fmt_i32(b[2]) \o <<"\n">>)] :
        b \in PwmBounds}
        \cup {[min |-> Missing, max |-> File(<<"2", "5", "5", "\n">>)],
              [min |-> File(<<"0", "\n">>), max |-> File(<<>>)],
              [min |-> File(<<"a", "\n">>), max |-> File(<<"2", "5", "5", "\n">>)]}

\* what fs::read_dir yields for one entry: an Io error, something that is no
\* directory, or a hwmon directory
DirEntries ==
    {[kind |-> "Err"], [kind |-> "File"]}
        \cup {[kind |-> "Dir", min |-> d.min, max |-> d.max] : d \in HwmonDirs}

\* raw temperatures, in thousandths of a degree
TempRaws == {0, 1000, 1500, 2000, 3000}

\* contents of temp1_input at the time of a read
TempFiles ==
    {File(fmt_i32(t) \o <<"\n">>) : t \in TempRaws}
        \cup {Missing, File(<<>>), File(<<"a", "b", "c", "\n">>)}

NoResult == [tag |-> "none"]

Ok == [tag |-> "Ok"]

Err(e) == [tag |-> "Err", err |-> e]

\* From<amdgpu::GpuError> for Error
Control(e) == [kind |-> "Control", inner |-> e]

\* the variants of main.rs's Error without a GpuError
ConfigIo(kind) == [kind |-> "ConfigIo", io |-> kind]

ConfigParse == [kind |-> "ConfigParse"]

ConfigurationMissing == [kind |-> "ConfigurationMissing"]

InvalidCurve == [kind |-> "InvalidCurve"]

CouldNotFindDevice == [kind |-> "CouldNotFindDevice"]

\* load_config_file without the check of the two lists
load_config_file_unchecked(f) ==
    IF f.kind = "Toml" THEN [ok |-> TRUE, cfg |-> f]
    ELSE IF f.kind = "BadToml" THEN [ok |-> FALSE, err |-> ConfigParse]
    ELSE [ok |-> FALSE, err |-> ConfigIo(f.kind)]

\* load_config_file: read, parse, then reject an empty or uneven curve
load_config_file(f) ==
    IF f.kind = "Toml"
    THEN IF Len(f.temperatures) # Len(f.fan_speeds) \/ Len(f.temperatures) = 0
         THEN [ok |-> FALSE, err |-> InvalidCurve]
         ELSE [ok |-> TRUE, cfg |-> f]
    ELSE IF f.kind = "BadToml" THEN [ok |-> FALSE, err |-> ConfigParse]
    ELSE [ok |-> FALSE, err |-> ConfigIo(f.kind)]

\* CurveConfig::to_curve: the temperatures zipped with the fan speeds
to_curve(c) ==
    LET n == IF Len(c.temperatures) < Len(c.fan_speeds)
             THEN Len(c.temperatures) ELSE Len(c.fan_speeds)
    IN  [i \in 1..n |-> <<c.temperatures[i], c.fan_speeds[i]>>]

\* Result::map_err(Into::into) on the loop's result
map_err_into(r) == IF r.tag = "Err" THEN Err(Control(r.err)) ELSE r

VARIABLES
    pc,                   \* position of run / control_loop
    paths_to_check,       \* load_config: the candidates not yet tried
    config_err,           \* load_config: the error of the last candidate tried
    config,               \* run's `config`, once loaded
    entries_left,         \* for_device: entries read_dir has yet to yield
    hwmons,               \* for_device's `result`, then run's `hwmons`
    unit_call,            \* a device or curve function applied on its own,
    unit_args,            \*   its arguments
    unit_ret,             \*   and what it returned
    exit_var,             \* the AtomicBool the signal handlers set
    curve,                \* ControlCurve.data_points
    pwm_min, pwm_max,     \* Hwmon.pwm_min, Hwmon.pwm_max
    temperature_celcius,  \* locals of one loop iteration (None outside)
    fan_speed_relative,
    fan_speed_pwm,
    result,               \* run's `result`: what control_loop returned
    run_result,           \* what run returned
    pwm_enable,           \* content of the pwm1_enable file
    pwm,                  \* content of the pwm1 file
    exit_at_entry,        \* exit_var when control_loop was entered
    manual_calls,         \* calls of set_pwm_mode(Manual)
    auto_calls,           \* calls of set_pwm_mode(Automatic)
    restore_ok,           \* outcome of the Automatic-mode write
    temp_reads,           \* calls of get_temperature
    pwm_writes,           \* calls of set_pwm
    sleeps                \* calls of thread::sleep

vars == <<pc, paths_to_check, config_err, config, entries_left, hwmons,
          unit_call, unit_args, unit_ret, exit_var, curve, pwm_min, pwm_max, temperature_celcius,
          fan_speed_relative, fan_speed_pwm, result, run_result, pwm_enable,
          pwm, exit_at_entry, manual_calls, auto_calls, restore_ok,
          temp_reads, pwm_writes, sleeps>>

device == <<curve, pwm_min, pwm_max>>

startup == <<paths_to_check, config_err, config, entries_left, hwmons>>

unit == <<unit_call, unit_args, unit_ret>>

locals == <<temperature_celcius, fan_speed_relative, fan_speed_pwm>>

files == <<pwm_enable, pwm>>

counters == <<manual_calls, auto_calls, temp_reads, pwm_writes, sleeps>>

\* run starts; pwm_min and pwm_max are 0 until a device is opened, curve is
\* empty until to_curve builds it
Init ==
    /\ pc = "load_config"
    /\ paths_to_check = ConfigPaths
    /\ config_err = None
    /\ config = None
    /\ entries_left = 0
    /\ hwmons = <<>>
    /\ unit_call = "none"
    /\ unit_args = <<>>
    /\ unit_ret = <<>>
    /\ exit_var = FALSE
    /\ curve = <<>>
    /\ pwm_min = 0
    /\ pwm_max = 0
    /\ temperature_celcius = None
    /\ fan_speed_relative = None
    /\ fan_speed_pwm = None
    /\ result = NoResult
    /\ run_result = NoResult
    /\ pwm_enable = "unknown"
    /\ pwm = None
    /\ exit_at_entry = None
    /\ manual_calls = 0
    /\ auto_calls = 0
    /\ restore_ok = None
    /\ temp_reads = 0
    /\ pwm_writes = 0
    /\ sleeps = 0

\* SIGTERM or SIGINT arrives: signal_hook's handler stores true in the flag
Signal ==
    /\ pc \notin {"load_config", "for_device", "next_entry", "pop", "register"}
    /\ pc \notin {"done", "panicked"}
    /\ ~exit_var
    /\ exit_var' = TRUE
    /\ UNCHANGED <<pc, device, locals, result, run_result, files,
                   exit_at_entry, counters, restore_ok>>
    /\ UNCHANGED <<startup, unit>>

\* main.rs:32 with load_config: the next candidate is loaded; the first that
\* loads is the configuration, any error is logged and the next one tried,
\* and with no candidate left run returns ConfigurationMissing
LoadConfig ==
    /\ pc = "load_config"
    /\ IF paths_to_check = <<>>
       THEN /\ run_result' = Err(ConfigurationMissing)
            /\ pc' = "done"
            /\ UNCHANGED <<paths_to_check, config_err, config>>
       ELSE \E f \in ConfigFiles :
               LET cfg_result == load_config_file(f)
               IN  IF cfg_result.ok
                   THEN /\ config' = Some(cfg_result.cfg)
                        /\ config_err' = None
                        /\ paths_to_check' = <<>>
                        /\ pc' = "for_device"
                        /\ run_result' = run_result
                   ELSE /\ config' = config
                        /\ config_err' = Some(cfg_result.err)
                        /\ paths_to_check' = Tail(paths_to_check)
                        /\ pc' = pc
                        /\ run_result' = run_result
    /\ UNCHANGED <<entries_left, hwmons, unit, exit_var, device, locals, result,
                   files, exit_at_entry, counters, restore_ok>>

\* amdgpu.rs:86-88: fs::read_dir of the card's hwmon directory
ReadDir ==
    /\ pc = "for_device"
    /\ \E n \in -1..MaxEntries :
          IF n < 0
          THEN /\ run_result' = Err(Control(IoError("hwmon")))
               /\ pc' = "done"
               /\ entries_left' = entries_left
          ELSE /\ run_result' = run_result
               /\ pc' = "next_entry"
               /\ entries_left' = n
    /\ UNCHANGED <<paths_to_check, config_err, config, hwmons, unit, exit_var,
                   device, locals, result, files, exit_at_entry, counters,
                   restore_ok>>

\* amdgpu.rs:88-96: one turn of for_device's loop: the entry is an error, is
\* no directory, or is opened with Hwmon::new and pushed; Ok(result) after
\* the last entry
NextEntry ==
    /\ pc = "next_entry"
    /\ IF entries_left = 0
       THEN /\ pc' = "pop"
            /\ UNCHANGED <<entries_left, hwmons, run_result>>
       ELSE \E entry \in DirEntries :
               IF entry.kind = "Err"
               THEN /\ run_result' = Err(Control(IoError("hwmon")))
                    /\ pc' = "done"
                    /\ hwmons' = <<>>
                    /\ entries_left' = 0
               ELSE IF entry.kind = "File"
               THEN /\ entries_left' = entries_left - 1
                    /\ UNCHANGED <<pc, hwmons, run_result>>
               ELSE LET hwmon == Hwmon_new(entry.min, entry.max)
                    IN  IF hwmon.ok
                        THEN /\ hwmons' = Append(hwmons, <<hwmon.pwm_min, hwmon.pwm_max>>)
                             /\ entries_left' = entries_left - 1
                             /\ UNCHANGED <<pc, run_result>>
                        ELSE /\ run_result' = Err(Control(hwmon.err))
                             /\ pc' = "done"
                             /\ hwmons' = <<>>
                             /\ entries_left' = 0
    /\ UNCHANGED <<paths_to_check, config_err, config, unit, exit_var, device,
                   locals, result, files, exit_at_entry, counters, restore_ok>>

\* main.rs:38: hwmons.pop().ok_or(CouldNotFindDevice); the handles left in
\* hwmons are not used again
PopDevice ==
    /\ pc = "pop"
    /\ IF hwmons = <<>>
       THEN /\ run_result' = Err(CouldNotFindDevice)
            /\ pc' = "done"
            /\ UNCHANGED <<pwm_min, pwm_max>>
       ELSE /\ pwm_min' = hwmons[Len(hwmons)][1]
            /\ pwm_max' = hwmons[Len(hwmons)][2]
            /\ pc' = "register"
            /\ run_result' = run_result
    /\ hwmons' = <<>>
    /\ UNCHANGED <<paths_to_check, config_err, config, entries_left, unit,
                   exit_var, curve, locals, result, files, exit_at_entry,
                   counters, restore_ok>>

\* signal registration whose failure is cleaned up with the restore
RegisterRestoreOnError ==
    /\ pc = "register"
    /\ \E ok \in BOOLEAN :
          IF ok
          THEN /\ pc' = "set_manual"
               /\ result' = result
          ELSE /\ pc' = "restore"
               /\ result' = Err(IoError("register"))
    /\ UNCHANGED <<startup, unit, exit_var, device, locals, run_result, files,
                   exit_at_entry, counters, restore_ok>>

\* main.rs:40-42: the two signal_hook::flag::register calls
Register ==
    /\ pc = "register"
    /\ \E ok \in BOOLEAN :
          IF ok
          THEN /\ pc' = "set_manual"
               /\ run_result' = run_result
          ELSE /\ pc' = "done"
               /\ run_result' = Err(ConfigIo("register"))
    /\ UNCHANGED <<startup, unit, exit_var, device, locals, result, files,
                   exit_at_entry, counters, restore_ok>>

\* set_pwm_mode(Manual) whose error is not looked at
SetManualIgnoreError ==
    /\ pc = "set_manual"
    /\ manual_calls' = manual_calls + 1
    /\ \E ok \in BOOLEAN :
          /\ pwm_enable' = IF ok THEN "1" ELSE pwm_enable
          /\ pc' = "loop_head"
          /\ exit_at_entry' = Some(exit_var)
          /\ curve' = to_curve(config[1])
          /\ run_result' = run_result
    /\ UNCHANGED <<exit_var, pwm_min, pwm_max, locals, result, pwm, auto_calls,
                   restore_ok, temp_reads, pwm_writes, sleeps>>
    /\ UNCHANGED <<startup, unit>>

\* main.rs:44-50: device.set_pwm_mode(Manual)?; then the curve is built and
\* control_loop is entered
SetManual ==
    /\ pc = "set_manual"
    /\ manual_calls' = manual_calls + 1
    /\ \E ok \in BOOLEAN :
          IF ok
          THEN /\ pwm_enable' = "1"
               /\ pc' = "loop_head"
               /\ exit_at_entry' = Some(exit_var)
               /\ curve' = to_curve(config[1])
               /\ run_result' = run_result
          ELSE /\ pwm_enable' = pwm_enable
               /\ pc' = "done"
               /\ exit_at_entry' = exit_at_entry
               /\ curve' = curve
               /\ run_result' = Err(Control(IoError("set_pwm_mode")))
    /\ UNCHANGED <<exit_var, pwm_min, pwm_max, locals, result, pwm, auto_calls,
                   restore_ok, temp_reads, pwm_writes, sleeps>>
    /\ UNCHANGED <<startup, unit>>
    /\ UNCHANGED <<startup, unit>>

\* control_loop that enters the body once before it reads the flag
LoopHeadBodyFirst ==
    /\ pc = "loop_head"
    /\ IF exit_var /\ temp_reads > 0
       THEN /\ result' = Ok
            /\ pc' = "restore"
       ELSE /\ temp_reads < MaxIter
            /\ result' = result
            /\ pc' = "get_temperature"
    /\ UNCHANGED <<exit_var, device, locals, run_result, files,
                   exit_at_entry, counters, restore_ok>>
    /\ UNCHANGED <<startup, unit>>

\* main.rs:68 and 79: the loop condition; Ok(()) once the flag is set
LoopHead ==
    /\ pc = "loop_head"
    /\ IF exit_var
       THEN /\ result' = Ok
            /\ pc' = "restore"
       ELSE /\ temp_reads < MaxIter
            /\ result' = result
            /\ pc' = "get_temperature"
    /\ UNCHANGED <<exit_var, device, locals, run_result, files,
                   exit_at_entry, counters, restore_ok>>
    /\ UNCHANGED <<startup, unit>>

\* what Hwmon::read_value can return for the temperature file: a parsed
\* i32, an Io error, or a Parse error naming the path
ReadOutcomes == {get_temperature(f) : f \in TempFiles}

\* main.rs:69: device.get_temperature()?.as_celcius()
GetTemperature ==
    /\ pc = "get_temperature"
    /\ temp_reads' = temp_reads + 1
    /\ \E r \in ReadOutcomes :
          IF r.ok
          THEN /\ temperature_celcius' = Some(as_celcius(r.v))
               /\ result' = result
               /\ pc' = "control"
          ELSE /\ temperature_celcius' = None
               /\ result' = Err(r.err)
               /\ pc' = "restore"
    /\ UNCHANGED <<exit_var, device, fan_speed_relative, fan_speed_pwm,
                   run_result, files, exit_at_entry, manual_calls, auto_calls,
                   restore_ok, pwm_writes, sleeps>>
    /\ UNCHANGED <<startup, unit>>

\* main.rs:70: curve.control(temperature_celcius); a panic unwinds out of run
Evaluate ==
    /\ pc = "control"
    /\ LET c == control(curve, temperature_celcius[1])
       IN  IF c.panic
           THEN /\ pc' = "panicked"
                /\ temperature_celcius' = None
                /\ fan_speed_relative' = None
           ELSE /\ pc' = "from_percentage"
                /\ temperature_celcius' = temperature_celcius
                /\ fan_speed_relative' = Some(c.v)
    /\ UNCHANGED <<exit_var, device, fan_speed_pwm, result, run_result, files,
                   exit_at_entry, counters, restore_ok>>
    /\ UNCHANGED <<startup, unit>>

\* from_percentage called with the two bounds in the other order
ConvertSwapped ==
    /\ pc = "from_percentage"
    /\ LET p == from_percentage(pwm_max, pwm_min, fan_speed_relative[1])
       IN  IF p.ok
           THEN /\ fan_speed_pwm' = Some(p.pwm)
                /\ result' = result
                /\ pc' = "set_pwm"
                /\ UNCHANGED <<temperature_celcius, fan_speed_relative>>
           ELSE /\ fan_speed_pwm' = None
                /\ temperature_celcius' = None
                /\ fan_speed_relative' = None
                /\ result' = Err(p.err)
                /\ pc' = "restore"
    /\ UNCHANGED <<exit_var, device, run_result, files, exit_at_entry,
                   counters, restore_ok>>
    /\ UNCHANGED <<startup, unit>>

\* main.rs:71: Pwm::from_percentage(get_pwm_min(), get_pwm_max(), ..)?
Convert ==
    /\ pc = "from_percentage"
    /\ LET p == from_percentage(pwm_min, pwm_max, fan_speed_relative[1])
       IN  IF p.ok
           THEN /\ fan_speed_pwm' = Some(p.pwm)
                /\ result' = result
                /\ pc' = "set_pwm"
                /\ UNCHANGED <<temperature_celcius, fan_speed_relative>>
           ELSE /\ fan_speed_pwm' = None
                /\ temperature_celcius' = None
                /\ fan_speed_relative' = None
                /\ result' = Err(p.err)
                /\ pc' = "restore"
    /\ UNCHANGED <<exit_var, device, run_result, files, exit_at_entry,
                   counters, restore_ok>>
    /\ UNCHANGED <<startup, unit>>

\* set_pwm whose error is only looked at after the sleep
SetPwmSleepFirst ==
    /\ pc = "set_pwm"
    /\ pwm_writes' = pwm_writes + 1
    /\ \E ok \in BOOLEAN :
          IF ok
          THEN /\ pwm' = Some(fan_speed_pwm[1])
               /\ result' = result
               /\ pc' = "sleep"
               /\ sleeps' = sleeps
               /\ UNCHANGED locals
          ELSE /\ pwm' = pwm
               /\ result' = Err(IoError("set_pwm"))
               /\ pc' = "restore"
               /\ sleeps' = sleeps + 1
               /\ temperature_celcius' = None
               /\ fan_speed_relative' = None
               /\ fan_speed_pwm' = None
    /\ UNCHANGED <<exit_var, device, run_result, pwm_enable, exit_at_entry,
                   manual_calls, auto_calls, restore_ok, temp_reads>>
    /\ UNCHANGED <<startup, unit>>

\* set_pwm preceded by a second read of the flag
SetPwmCancellable ==
    /\ pc = "set_pwm"
    /\ IF exit_var
       THEN /\ pwm' = pwm
            /\ pwm_writes' = pwm_writes
            /\ result' = Ok
            /\ pc' = "restore"
            /\ temperature_celcius' = None
            /\ fan_speed_relative' = None
            /\ fan_speed_pwm' = None
       ELSE /\ pwm_writes' = pwm_writes + 1
            /\ pwm' = Some(fan_speed_pwm[1])
            /\ result' = result
            /\ pc' = "sleep"
            /\ UNCHANGED locals
    /\ UNCHANGED <<exit_var, device, run_result, pwm_enable, exit_at_entry,
                   manual_calls, auto_calls, restore_ok, temp_reads, sleeps>>
    /\ UNCHANGED <<startup, unit>>

\* main.rs:75: device.set_pwm(fan_speed_pwm)?
SetPwm ==
    /\ pc = "set_pwm"
    /\ pwm_writes' = pwm_writes + 1
    /\ \E ok \in BOOLEAN :
          IF ok
          THEN /\ pwm' = Some(fan_speed_pwm[1])
               /\ result' = result
               /\ pc' = "sleep"
               /\ UNCHANGED locals
          ELSE /\ pwm' = pwm
               /\ result' = Err(IoError("set_pwm"))
               /\ pc' = "restore"
               /\ temperature_celcius' = None
               /\ fan_speed_relative' = None
               /\ fan_speed_pwm' = None
    /\ UNCHANGED <<exit_var, device, run_result, pwm_enable, exit_at_entry,
                   manual_calls, auto_calls, restore_ok, temp_reads, sleeps>>
    /\ UNCHANGED <<startup, unit>>

\* main.rs:77: thread::sleep(poll_interval); the iteration's locals end here
Sleep ==
    /\ pc = "sleep"
    /\ sleeps' = sleeps + 1
    /\ temperature_celcius' = None
    /\ fan_speed_relative' = None
    /\ fan_speed_pwm' = None
    /\ pc' = "loop_head"
    /\ UNCHANGED <<exit_var, device, result, run_result, files, exit_at_entry,
                   manual_calls, auto_calls, restore_ok, temp_reads, pwm_writes>>
    /\ UNCHANGED <<startup, unit>>

\* run that returns a failed loop's error with `?`, before the restore
RestoreOnlyOnSuccess ==
    /\ pc = "restore"
    /\ IF result.tag = "Err"
       THEN /\ UNCHANGED <<auto_calls, restore_ok, pwm_enable>>
       ELSE /\ auto_calls' = auto_calls + 1
            /\ \E ok \in BOOLEAN :
                  /\ restore_ok' = Some(ok)
                  /\ pwm_enable' = IF ok THEN "2" ELSE pwm_enable
    /\ pc' = "return"
    /\ UNCHANGED <<exit_var, device, locals, result, run_result, pwm,
                   exit_at_entry, manual_calls, temp_reads, pwm_writes, sleeps>>
    /\ UNCHANGED <<startup, unit>>

\* main.rs:52-62: device.set_pwm_mode(Automatic), its error only logged
Restore ==
    /\ pc = "restore"
    /\ auto_calls' = auto_calls + 1
    /\ \E ok \in BOOLEAN :
          /\ restore_ok' = Some(ok)
          /\ pwm_enable' = IF ok THEN "2" ELSE pwm_enable
    /\ pc' = "return"
    /\ UNCHANGED <<exit_var, device, locals, result, run_result, pwm,
                   exit_at_entry, manual_calls, temp_reads, pwm_writes, sleeps>>
    /\ UNCHANGED <<startup, unit>>

\* run that returns the restore's error when the restore failed
ReturnRestoreError ==
    /\ pc = "return"
    /\ run_result' = IF restore_ok = Some(FALSE)
                     THEN Err(Control(IoError("set_pwm_mode")))
                     ELSE map_err_into(result)
    /\ pc' = "done"
    /\ UNCHANGED <<exit_var, device, locals, result, files, exit_at_entry,
                   counters, restore_ok>>
    /\ UNCHANGED <<startup, unit>>

\* main.rs:64: result.map_err(Into::into)
Return ==
    /\ pc = "return"
    /\ run_result' = map_err_into(result)
    /\ pc' = "done"
    /\ UNCHANGED <<exit_var, device, locals, result, files, exit_at_entry,
                   counters, restore_ok>>
    /\ UNCHANGED <<startup, unit>>

Next ==
    \/ LoadConfig
    \/ ReadDir
    \/ NextEntry
    \/ PopDevice
    \/ Register
    \/ Signal
    \/ SetManual
    \/ LoopHead
    \/ GetTemperature
    \/ Evaluate
    \/ Convert
    \/ SetPwm
    \/ Sleep
    \/ Restore
    \/ Return

Spec == Init /\ [][Next]_vars

(***************************************************************************)
(* The functions of amdgpu.rs and control.rs applied on their own, once    *)
(* per behaviour, to every input of the sets below; the call, its          *)
(* arguments and what it returned are kept in unit_call, unit_args and     *)
(* unit_ret.                                                               *)
(***************************************************************************)
\* the characters a file is made of: a digit, a sign, a letter, the two line
\* endings and a byte that is no UTF-8
UnitAlphabet == {"1", "-", "a", "\n", "\r", BadByte}

\* the texts around the limits of i32
LimitTexts ==
    {<<"2", "1", "4", "7", "4", "8", "3", "6", "4", "7">>,
     <<"2", "1", "4", "7", "4", "8", "3", "6", "4", "8">>,
     <<"-", "2", "1", "4", "7", "4", "8", "3", "6", "4", "8">>,
     <<"-", "2", "1", "4", "7", "4", "8", "3", "6", "4", "9">>}

\* the files a read is applied to: no file, every content of up to
\* MaxFileLen characters, the limit texts and a number with a plus sign
UnitFiles ==
    {Missing}
        \cup {File(b) : b \in SeqsUpTo(UnitAlphabet, MaxFileLen)}
        \cup {File(t) : t \in LimitTexts}
        \cup {File(t \o <<"\n">>) : t \in LimitTexts}
        \cup {File(<<"+", "1", "\n">>)}

\* the pwm1_max files tried when pwm1_min cannot be read
UnitFilesUnread == {Missing, File(<<>>), File(<<"1", "\n">>)}

\* the arguments from_percentage is applied to for a value to write
UnitPwmInputs ==
    (PwmBounds \X {Int2F(-1), Int2F(0), Fin(1, 2), Int2F(1), Int2F(2), NaN})
        \cup ({<<0, I32Max>>, <<-I32Max, 0>>} \X {Int2F(0), Int2F(1)})

\* the curves control is applied to: sorted or not, with or without NaN
UnitCurves ==
    SeqsUpTo({Int2F(0), Int2F(1), Int2F(2), NaN} \X {Int2F(0), Int2F(1)},
             MaxPoints + 1)

UnitInputs == {Int2F(0), Int2F(1), Fin(3, 2), Int2F(3), NaN}

\* amdgpu.rs:99-112: Hwmon::new on a directory with these two files
UnitHwmonNew ==
    /\ unit_call = "none"
    /\ \E min_file \in UnitFiles :
          \E max_file \in (IF read_value("pwm1_min", min_file).ok
                            THEN UnitFiles ELSE UnitFilesUnread) :
             /\ unit_call' = "Hwmon::new"
             /\ unit_args' = <<min_file, max_file>>
             /\ unit_ret' = Hwmon_new(min_file, max_file)
    /\ UNCHANGED <<pc, startup, exit_var, device, locals, result, run_result,
                   files, exit_at_entry, counters, restore_ok>>

\* amdgpu.rs:114-117: get_temperature on this temp1_input
UnitGetTemperature ==
    /\ unit_call = "none"
    /\ \E temp_file \in UnitFiles :
          /\ unit_call' = "get_temperature"
          /\ unit_args' = <<temp_file>>
          /\ unit_ret' = get_temperature(temp_file)
    /\ UNCHANGED <<pc, startup, exit_var, device, locals, result, run_result,
                   files, exit_at_entry, counters, restore_ok>>

\* amdgpu.rs:135-138: set_pwm of a value from_percentage produced; unit_ret
\* is the pwm1 file afterwards
UnitSetPwm ==
    /\ unit_call = "none"
    /\ \E a \in UnitPwmInputs :
          LET p == from_percentage(a[1][1], a[1][2], a[2])
          IN  /\ p.ok
              /\ unit_call' = "set_pwm"
              /\ unit_args' = <<p.pwm>>
              /\ unit_ret' = set_pwm(p.pwm)
    /\ UNCHANGED <<pc, startup, exit_var, device, locals, result, run_result,
                   files, exit_at_entry, counters, restore_ok>>

\* amdgpu.rs:140-150: read_value of the file set_pwm wrote
UnitReadBack ==
    /\ unit_call = "set_pwm"
    /\ unit_call' = "read_back"
    /\ unit_args' = <<unit_args[1], unit_ret>>
    /\ unit_ret' = read_value("pwm1", unit_ret)
    /\ UNCHANGED <<pc, startup, exit_var, device, locals, result, run_result,
                   files, exit_at_entry, counters, restore_ok>>

\* control.rs:12-36: control of this curve at this input
UnitControl ==
    /\ unit_call = "none"
    /\ \E dp \in UnitCurves, input \in UnitInputs :
          /\ unit_call' = "control"
          /\ unit_args' = <<dp, input>>
          /\ unit_ret' = control(dp, input)
    /\ UNCHANGED <<pc, startup, exit_var, device, locals, result, run_result,
                   files, exit_at_entry, counters, restore_ok>>

NextUnit ==
    \/ UnitHwmonNew
    \/ UnitGetTemperature
    \/ UnitSetPwm
    \/ UnitReadBack
    \/ UnitControl

SpecUnit == Init /\ [][NextUnit]_vars

(***************************************************************************)
(* Properties.                                                             *)
(***************************************************************************)
\* control_loop was entered, which run does only after a successful
\* set_pwm_mode(Manual)
ManualSucceeded == exit_at_entry # None

LoopReturned == result # NoResult

\* C1: in a run whose Manual-mode write succeeded, set_pwm_mode(Automatic) is
\* called exactly once, after control_loop has returned (by cancellation or
\* with an error) and before run returns: never while the loop runs, never
\* twice, and always by the time run is about to return.
C1_RestoreExactlyOnce ==
    /\ auto_calls <= 1
    /\ (auto_calls = 1 => ManualSucceeded /\ LoopReturned /\ pc \in {"return", "done"})
    /\ (ManualSucceeded /\ pc \in {"return", "done"} => LoopReturned /\ auto_calls = 1)

C1_Witness ==
    /\ pc = "done"
    /\ ManualSucceeded
    /\ result.tag = "Err"
    /\ auto_calls = 1

\* C2: when the initial Manual-mode write fails, the loop is never started
\* (no temperature read, no duty-cycle write) and set_pwm_mode(Automatic) is
\* still invoked once before the failure is returned.
C2_CleanupAfterFailedManual ==
    (pc = "done" /\ manual_calls = 1 /\ ~ManualSucceeded) =>
        /\ run_result.tag = "Err"
        /\ temp_reads = 0
        /\ pwm_writes = 0
        /\ auto_calls = 1

\* C3: when the flag is already set when control_loop is entered, the run
\* writes Manual mode, reads no temperature, writes no duty cycle, performs
\* the Automatic-mode restore and returns success.
C3_CancelledBeforeFirstIteration ==
    exit_at_entry = Some(TRUE) =>
        /\ manual_calls = 1
        /\ temp_reads = 0
        /\ pwm_writes = 0
        /\ sleeps = 0
        /\ pwm = None
        /\ (pc \in {"return", "done"} => auto_calls = 1)
        /\ (pc = "done" => run_result = Ok)

C3_Witness ==
    /\ pc = "done"
    /\ exit_at_entry = Some(TRUE)
    /\ pwm_enable = "2"

FailedInRead(e) ==
    \/ e.kind = "Parse"
    \/ e.kind = "InvalidFanSpeed"
    \/ (e.kind = "Io" /\ e.op = "temp1_input")

\* C4: when get_temperature, from_percentage or set_pwm fails, the loop stops
\* at once: a failed read or conversion is followed by no duty write, a
\* failed write by no sleep, nothing of a further iteration runs, the
\* restore is attempted and run returns that same error.
C4_ErrorStopsLoop ==
    result.tag = "Err" =>
        /\ pc \in {"restore", "return", "done"}
        /\ IF FailedInRead(result.err)
           THEN temp_reads = pwm_writes + 1 /\ sleeps = pwm_writes
           ELSE temp_reads = pwm_writes /\ sleeps = pwm_writes - 1
        /\ (pc \in {"return", "done"} => auto_calls = 1)
        /\ (pc = "done" => run_result = Err(Control(result.err)))

C4_Witness ==
    /\ pc = "done"
    /\ result = Err(IoError("set_pwm"))
    /\ temp_reads = 2
    /\ sleeps = 1

\* C5: what run returns is what control_loop returned, whether the
\* Automatic-mode write succeeded or failed: success after a cancelled loop,
\* the loop's own error (wrapped as Error::Control) after a failed loop.
C5_RestoreOutcomeIgnored ==
    (pc = "done" /\ ManualSucceeded) =>
        /\ restore_ok # None
        /\ (result.tag = "Ok" => run_result.tag = "Ok")
        /\ (result.tag = "Err" =>
               /\ run_result.tag = "Err"
               /\ run_result.err.kind = "Control"
               /\ run_result.err.inner = result.err)

C5_Witness ==
    /\ pc = "done"
    /\ result = Ok
    /\ restore_ok = Some(FALSE)
    /\ run_result = Ok

InIteration == {"get_temperature", "control", "from_percentage", "set_pwm", "sleep"}

NextStep(p) ==
    CASE p = "get_temperature" -> "control"
      [] p = "control" -> "from_percentage"
      [] p = "from_percentage" -> "set_pwm"
      [] p = "set_pwm" -> "sleep"
      [] p = "sleep" -> "loop_head"

C6_Step ==
    /\ (exit_var' # exit_var => UNCHANGED <<pc, result, counters>>)
    /\ (result = NoResult /\ result' = Ok =>
           /\ pc = "loop_head"
           /\ exit_var
           /\ temp_reads = pwm_writes
           /\ pwm_writes = sleeps)
    /\ (pc \in InIteration /\ pc' # pc =>
           \/ pc' = NextStep(pc) /\ result' = NoResult
           \/ pc' = "restore" /\ result'.tag = "Err"
           \/ pc' = "panicked" /\ result' = NoResult)

\* C6: the flag is read only at the head of an iteration: setting it moves
\* nothing, the loop returns Ok only from the loop condition with as many
\* duty writes and sleeps as temperature reads, and an iteration past the
\* check goes from each step to the next unless the step fails.
C6_CancelOnlyAtLoopHead == [][C6_Step]_vars

\* the flag was clear at the loop condition, was set during the iteration,
\* and the iteration still wrote its duty cycle
C6_Witness ==
    /\ exit_at_entry = Some(FALSE)
    /\ exit_var
    /\ pc = "sleep"
    /\ temp_reads = 1
    /\ pwm # None

\* C7: with pwm_min <= pwm_max, every value handed to set_pwm, and so every
\* value written to the pwm1 file, lies in [pwm_min, pwm_max].
C7_PwmWithinBounds ==
    pwm_min <= pwm_max =>
        /\ (fan_speed_pwm # None => fan_speed_pwm[1] \in pwm_min..pwm_max)
        /\ (pwm # None => pwm[1] \in pwm_min..pwm_max)

\* a fraction above 1 was written as pwm_max
C7_Witness ==
    /\ pc = "sleep"
    /\ pwm_min < pwm_max
    /\ FLess(Int2F(1), fan_speed_relative[1])
    /\ pwm = Some(pwm_max)

\* C8: a NaN fraction makes from_percentage fail, so the iteration never
\* reaches the duty-cycle write with it.
C8_NaNFractionRejected ==
    (fan_speed_relative # None /\ is_nan(fan_speed_relative[1])) =>
        /\ pc # "set_pwm"
        /\ fan_speed_pwm = None

XOf(i) == curve[i][1]

YOf(i) == curve[i][2]

NoNaNX == \A i \in 1..Len(curve) : ~is_nan(XOf(i))

\* breakpoints sorted ascending by x
SortedByX ==
    /\ NoNaNX
    /\ \A i \in 1..(Len(curve) - 1) : ~FLess(XOf(i + 1), XOf(i))

\* what C9 says control returns for the sorted curve at input t
CurveValueIs(t, v) ==
    LET n == Len(curve)
    IN  /\ (~FLess(XOf(1), t) => v = YOf(1))
        /\ (~FLess(t, XOf(n)) => v = YOf(n))
        /\ (FLess(XOf(1), t) /\ FLess(t, XOf(n)) =>
               \E i \in 1..(n - 1) :
                  /\ ~FLess(t, XOf(i))
                  /\ FLess(t, XOf(i + 1))
                  /\ v = FAdd(YOf(i), FDiv(FMul(FSub(YOf(i + 1), YOf(i)), FSub(t, XOf(i))),
                                           FSub(XOf(i + 1), XOf(i)))))
        /\ \A i \in 1..n : (t = XOf(i) => v = YOf(i))

\* C9: for a curve sorted ascending by x, control returns the first y at or
\* below the smallest x, the last y at or above the largest x, the linear
\* interpolation of the adjacent breakpoints in between, and y_i at x_i.
C9_ControlOnSortedCurve ==
    (SortedByX /\ fan_speed_relative # None) =>
        CurveValueIs(temperature_celcius[1], fan_speed_relative[1])

\* C10: from_percentage(min, max, f) is floor(min + (max - min) * clamp(f, 0, 1))
\* for every f that is a number: min for every f <= 0, max for every f >= 1,
\* and in between the integer p with p <= min + (max - min) * f < p + 1.
C10_FromPercentageFloor ==
    (fan_speed_pwm # None /\ ~is_nan(fan_speed_relative[1])) =>
        LET f == fan_speed_relative[1]
            p == fan_speed_pwm[1]
            scaled == pwm_min * f.d + (pwm_max - pwm_min) * f.n
        IN  /\ (~FLess(Int2F(0), f) => p = pwm_min)
            /\ (~FLess(f, Int2F(1)) => p = pwm_max)
            /\ (FLess(Int2F(0), f) /\ FLess(f, Int2F(1)) =>
                   p * f.d <= scaled /\ scaled < (p + 1) * f.d)

\* a fraction strictly inside (0, 1) whose product is rounded down
C10_Witness ==
    /\ fan_speed_pwm # None
    /\ fan_speed_relative[1] = Fin(1, 2)
    /\ pwm_min = -3
    /\ pwm_max = 0
    /\ fan_speed_pwm[1] = -2

\* the first line of a content: what precedes the first "\n", or all of it
RawFirstLine(b) ==
    IF \E i \in 1..Len(b) : b[i] = "\n"
    THEN LET nl == CHOOSE i \in 1..Len(b) :
                       b[i] = "\n" /\ \A j \in 1..(i - 1) : b[j] # "\n"
         IN  SubSeq(b, 1, nl - 1)
    ELSE b

\* the first line without its line ending: "\n", or "\r\n"
FirstLine(b) ==
    LET raw == RawFirstLine(b)
    IN  IF Len(raw) < Len(b) /\ Len(raw) > 0 /\ raw[Len(raw)] = "\r"
        THEN SubSeq(raw, 1, Len(raw) - 1)
        ELSE raw

Undecodable(b) == \E i \in 1..Len(RawFirstLine(b)) : RawFirstLine(b)[i] = BadByte

\* the digits of a text, after its sign if it has one
DigitsOf(s) == IF Len(s) > 0 /\ s[1] \in {"+", "-"} THEN Tail(s) ELSE s

\* a text of i32: an optional sign, then digits only, at least one; a text
\* of ten digits is one of i32 when it is one of the two limits (UnitFiles
\* has no other text of ten digits or more)
IsI32Text(s) ==
    /\ Len(DigitsOf(s)) >= 1
    /\ \A i \in 1..Len(DigitsOf(s)) : IsDigit(DigitsOf(s)[i])
    /\ \/ Len(DigitsOf(s)) <= 9
       \/ s = fmt_i32(I32Max)
       \/ s = fmt_i32(I32Min)

\* the number a text of up to nine digits denotes
RECURSIVE Magnitude(_)
Magnitude(ds) ==
    IF ds = <<>> THEN 0
    ELSE Magnitude(SubSeq(ds, 1, Len(ds) - 1)) * 10 + DigitVal(ds[Len(ds)])

I32Of(s) ==
    IF s = fmt_i32(I32Max) THEN I32Max
    ELSE IF s = fmt_i32(I32Min) THEN I32Min
    ELSE IF s[1] = "-" THEN -Magnitude(DigitsOf(s))
    ELSE Magnitude(DigitsOf(s))

\* a file a bound or the temperature cannot be taken from
BadFile(f) ==
    \/ ~f.exists
    \/ f.bytes = <<>>
    \/ Undecodable(f.bytes)
    \/ ~IsI32Text(FirstLine(f.bytes))

\* the claim C11 as stated: whenever pwm1_min or pwm1_max is missing, is
\* empty or holds no integer, Hwmon::new fails with a Parse error that
\* carries the path of such a file and its first line, if any.
C11_BadBoundFileIsParseError ==
    unit_call = "Hwmon::new" =>
        LET min_file == unit_args[1]
            max_file == unit_args[2]
        IN  (BadFile(min_file) \/ BadFile(max_file)) =>
                /\ ~unit_ret.ok
                /\ unit_ret.err.kind = "Parse"
                /\ \/ /\ unit_ret.err.path = "pwm1_min"
                      /\ BadFile(min_file)
                   \/ /\ unit_ret.err.path = "pwm1_max"
                      /\ BadFile(max_file)

\* what reading a bad file at this path fails with
BadFileError(path, f) ==
    IF ~f.exists \/ Undecodable(f.bytes) THEN IoError(path)
    ELSE IF f.bytes = <<>> THEN ParseError(path, None)
    ELSE ParseError(path, Some(FirstLine(f.bytes)))

\* C11: whenever pwm1_min or pwm1_max is missing, is empty or has a first
\* line that is no integer, Hwmon::new produces no handle and fails with
\* the error of the first such file, pwm1_min before pwm1_max: an Io error
\* for a missing file or a first line that is no UTF-8, a Parse error with
\* the path and no text for an empty file, a Parse error with the path and
\* the first line otherwise.  A handle is produced only from two good files
\* and holds their two numbers.
C11_BadBoundFileFailsNew ==
    unit_call = "Hwmon::new" =>
        LET min_file == unit_args[1]
            max_file == unit_args[2]
        IN  /\ BadFile(min_file) =>
                  unit_ret = [ok |-> FALSE, err |-> BadFileError("pwm1_min", min_file)]
            /\ (~BadFile(min_file) /\ BadFile(max_file)) =>
                  unit_ret = [ok |-> FALSE, err |-> BadFileError("pwm1_max", max_file)]
            /\ unit_ret.ok =>
                  /\ ~BadFile(min_file)
                  /\ ~BadFile(max_file)
                  /\ unit_ret.pwm_min = I32Of(FirstLine(min_file.bytes))
                  /\ unit_ret.pwm_max = I32Of(FirstLine(max_file.bytes))

C11_Witness ==
    /\ unit_call = "Hwmon::new"
    /\ unit_args = <<File(<<"1", "\n">>), File(<<>>)>>
    /\ unit_ret = [ok |-> FALSE, err |-> ParseError("pwm1_max", None)]

\* the content is one line and nothing else
OneLine(b) ==
    /\ Len(b) > 0
    /\ \A i \in 1..(Len(b) - 1) : b[i] # "\n"

\* the claim C12 as stated: a read of an existing file returns a value only
\* when the content is one line that is an integer; every other content
\* (an empty file, text that is no number, garbage after the number, more
\* lines) gives a Parse error with the path and the first line, or none.
C12_OtherContentIsParseError ==
    unit_call = "get_temperature" =>
        LET f == unit_args[1]
        IN  f.exists =>
              IF OneLine(f.bytes) /\ ~BadFile(f)
              THEN unit_ret.ok
              ELSE /\ ~unit_ret.ok
                   /\ unit_ret.err.kind = "Parse"
                   /\ unit_ret.err.path = "temp1_input"
                   /\ unit_ret.err.contents =
                          (IF f.bytes = <<>> THEN None ELSE Some(FirstLine(f.bytes)))

\* C12: a read of an existing file returns a value exactly when the first
\* line, without its line ending, is an integer of i32, and then this
\* integer, whatever follows the first line; an empty file gives a Parse
\* error with the path and no text, a first line that is no integer a Parse
\* error with the path and this line, a first line that is no UTF-8 an Io
\* error; no content gives a default.  Hwmon::new returns bounds only
\* when both reads returned a value.
C12_ReadIsFirstLineOrError ==
    /\ unit_call = "get_temperature" =>
          LET f == unit_args[1]
          IN  f.exists =>
                /\ ~BadFile(f) =>
                      unit_ret = [ok |-> TRUE, v |-> I32Of(FirstLine(f.bytes))]
                /\ BadFile(f) =>
                      unit_ret = [ok |-> FALSE, err |-> BadFileError("temp1_input", f)]
    /\ (unit_call = "Hwmon::new" /\ unit_ret.ok) =>
          /\ ~BadFile(unit_args[1])
          /\ ~BadFile(unit_args[2])

C12_Witness ==
    /\ unit_call = "get_temperature"
    /\ unit_args = <<File(<<"1", "a", "\n">>)>>
    /\ unit_ret = [ok |-> FALSE, err |-> ParseError("temp1_input", Some(<<"1", "a">>))]

\* C13: reading the file set_pwm wrote for a value of from_percentage
\* returns this value.
C13_WriteThenReadIsIdentity ==
    unit_call = "read_back" =>
        unit_ret = [ok |-> TRUE, v |-> unit_args[1]]

C13_Witness ==
    /\ unit_call = "read_back"
    /\ unit_args = <<-3, File(<<"-", "3", "\n">>)>>
    /\ unit_ret = [ok |-> TRUE, v |-> -3]

\* C14: on a curve without NaN x and a non-NaN input, control does not
\* panic: the search answers an index from 0 to the number of breakpoints,
\* and the empty curve gives NaN.
C14_ControlNeverPanics ==
    unit_call = "control" =>
        LET dp == unit_args[1]
            input == unit_args[2]
        IN  ((\A i \in 1..Len(dp) : ~is_nan(dp[i][1])) /\ ~is_nan(input)) =>
                /\ ~unit_ret.panic
                /\ binary_search_by(dp, input).tag # "Panic"
                /\ binary_search_by(dp, input).pos \in 0..Len(dp)
                /\ (Len(dp) = 0 => is_nan(unit_ret.v))

C14_Witness ==
    /\ unit_call = "control"
    /\ unit_args = <<<< <<Int2F(1), Int2F(1)>> >>, Int2F(1)>>
    /\ unit_ret = [panic |-> FALSE, v |-> Int2F(1)]

\* C15: a run that has ended with the cancellation flag set has performed
\* the Automatic-mode restore. (The claim's other half, at most one further
\* duty-cycle write once the flag is set, is C6's step property.)
C15_CancelLeadsToRestore ==
    (exit_var /\ pc \in {"done", "panicked"}) => auto_calls = 1

\* C16: a duty-cycle write happens only after the successful Manual-mode
\* write (the mode file holds "1") and before the restore attempt; the
\* Manual-mode write precedes every other write; after the restore attempt
\* neither the duty-cycle file nor the mode file is written again.
C16_Step ==
    /\ (pwm_writes' # pwm_writes \/ pwm' # pwm) =>
          /\ ManualSucceeded
          /\ pwm_enable = "1"
          /\ manual_calls = 1
          /\ auto_calls = 0
          /\ auto_calls' = 0
    /\ manual_calls' # manual_calls =>
          /\ manual_calls = 0
          /\ pwm_writes = 0
          /\ auto_calls = 0
    /\ auto_calls >= 1 =>
          UNCHANGED <<pwm, pwm_enable, pwm_writes, manual_calls, auto_calls>>

C16_WritesBetweenManualAndRestore == [][C16_Step]_vars

C16_Witness ==
    /\ pc = "done"
    /\ pwm_writes = 2
    /\ pwm # None
    /\ pwm_enable = "2"

\* C17: when an iteration has written the duty cycle, the file holds
\* from_percentage(pwm_min, pwm_max, control(t)) for the temperature t read
\* in this iteration and the bounds of the device popped at start-up; an
\* iteration starts with no temperature at hand, and reads, writes and
\* sleeps come one each per iteration, in this order.
C17_IterationWritesControlOfFreshRead ==
    /\ pc = "loop_head" =>
          /\ temperature_celcius = None
          /\ temp_reads = sleeps
          /\ pwm_writes = sleeps
    /\ pc \in {"control", "from_percentage", "set_pwm"} =>
          /\ temp_reads = sleeps + 1
          /\ pwm_writes = sleeps
    /\ pc = "sleep" =>
          /\ temperature_celcius # None
          /\ temp_reads = sleeps + 1
          /\ pwm_writes = sleeps + 1
          /\ LET c == control(curve, temperature_celcius[1])
                 p == from_percentage(pwm_min, pwm_max, c.v)
             IN  /\ ~c.panic
                 /\ p.ok
                 /\ pwm = Some(p.pwm)

C17_Witness ==
    /\ pc = "sleep"
    /\ sleeps = 1
    /\ pwm_min = 0
    /\ pwm_max = 255
    /\ temperature_celcius = Some(Fin(3, 2))
    /\ pwm = Some(127)

\* C18: a run that ended without ever attempting the Manual-mode write
\* returned one of the start-up errors; as long as the Manual-mode write has
\* not been attempted, neither the mode file nor the duty-cycle file has
\* been written.
C18_EarlyFailureWritesNothing ==
    /\ manual_calls = 0 =>
          /\ pwm_enable = "unknown"
          /\ pwm = None
          /\ auto_calls = 0
          /\ pwm_writes = 0
    /\ (pc = "done" /\ manual_calls = 0) =>
          /\ run_result.tag = "Err"
          /\ \/ run_result.err = ConfigurationMissing
             \/ run_result.err = CouldNotFindDevice
             \/ run_result.err = ConfigIo("register")
             \/ /\ run_result.err.kind = "Control"
                /\ run_result.err.inner.kind \in {"Io", "Parse"}

C18_Witness ==
    /\ pc = "done"
    /\ manual_calls = 0
    /\ config # None
    /\ run_result = Err(CouldNotFindDevice)

\* C19: a loaded configuration has as many fan speeds as temperatures and
\* at least one; a candidate rejected as InvalidCurve is rejected before
\* the Manual-mode write, whichever candidate it is; the curve the loop
\* runs with has one breakpoint per configured temperature, so at least
\* one.
C19_LoopCurveNonEmpty ==
    /\ config # None =>
          /\ Len(config[1].temperatures) = Len(config[1].fan_speeds)
          /\ Len(config[1].temperatures) >= 1
    /\ config_err = Some(InvalidCurve) =>
          /\ config = None
          /\ manual_calls = 0
    /\ manual_calls >= 1 => config # None
    /\ ManualSucceeded =>
          /\ Len(curve) = Len(config[1].temperatures)
          /\ Len(curve) >= 1

C19_Witness ==
    /\ pc = "load_config"
    /\ config_err = Some(InvalidCurve)
    /\ Len(paths_to_check) = 0

====
